---- MODULE Spec2Model ----
(***************************************************************************)
(* gz::math::SphericalCoordinates (src/src/SphericalCoordinates.cc).       *)
(*                                                                         *)
(* Numbers.  The class computes in double; the properties examined here    *)
(* are statements of real arithmetic, so a double is modelled as an exact  *)
(* rational <<n, d>> (d > 0, lowest terms).  An angle is counted in        *)
(* quarter turns: the value k stands for k * pi/2 radians, so cos and sin  *)
(* are exact (0, 1, -1) on every angle of the model.  sqrt, atan and atan2 *)
(* are partial: they are defined where the result is rational, and the     *)
(* model never evaluates them elsewhere.                                   *)
(*                                                                         *)
(* The WGS84 axes (6378137 m, 6356752.314245 m) have an irrational         *)
(* eccentricity and squares beyond the model checker's integers.  The      *)
(* model keeps the code's formulas and stands a 5 : 3 ellipsoid in for     *)
(* them, whose eccentricities 4/5 and 4/3 are rational.                    *)
(***************************************************************************)
EXTENDS Integers, Sequences, FiniteSets, TLC

VARIABLES sc, call, cerr

vars == <<sc, call, cerr>>

\* ------------------------------------------------------------- bounds
\* latitude references are 0 .. MaxLatQ quarter turns
MaxLatQ == 1
\* longitude references are 0 .. MaxLonQ quarter turns
MaxLonQ == 1
\* heading offsets are 0 .. MaxHeadQ quarter turns
MaxHeadQ == 2
\* elevation references are 0 .. MaxElev metres
MaxElev == 1
\* argument vectors have natural components of sum at most MaxCoord
MaxCoord == 1

\* --------------------------------------------------- exact arithmetic
Abs(n) == IF n < 0 THEN -n ELSE n

RECURSIVE GCD(_, _)
GCD(m, n) == IF n = 0 THEN m ELSE GCD(n, m % n)

\* n / d in lowest terms, d # 0
Rat(n, d) ==
  CASE d # 0 ->
    LET s == IF d < 0 THEN -1 ELSE 1
        g == GCD(Abs(n), Abs(d))
    IN  <<(s * n) \div g, (s * d) \div g>>

Num(k) == <<k, 1>>

Zero == Num(0)

One == Num(1)

Neg(p) == <<-p[1], p[2]>>

Add(p, q) ==
  IF p[2] = 1 /\ q[2] = 1 THEN <<p[1] + q[1], 1>>
  ELSE Rat(p[1] * q[2] + q[1] * p[2], p[2] * q[2])

Sub(p, q) == Add(p, Neg(q))

Mul(p, q) ==
  IF p[2] = 1 /\ q[2] = 1 THEN <<p[1] * q[1], 1>>
  ELSE Rat(p[1] * q[1], p[2] * q[2])

\* defined for q # 0
Div(p, q) == CASE q[1] # 0 -> Rat(p[1] * q[2], p[2] * q[1])

\* std::pow(x, 2) and std::pow(x, 3)
Pow2(p) == Mul(p, p)

Pow3(p) == Mul(Mul(p, p), p)

IsSquare(n) == n >= 0 /\ \E k \in 0..n : k * k = n

ISqrt(n) == CHOOSE k \in 0..n : k * k = n

HasSqrt(p) == IsSquare(p[1]) /\ IsSquare(p[2])

\* sqrt, defined on the squares of rationals
Sqrt(p) == CASE HasSqrt(p) -> <<ISqrt(p[1]), ISqrt(p[2])>>

\* cos and sin of an angle given in quarter turns, defined on whole numbers
Cos(x) ==
  CASE x[2] = 1 ->
    LET k == x[1] % 4
    IN  IF k = 0 THEN One ELSE IF k = 2 THEN Neg(One) ELSE Zero

Sin(x) ==
  CASE x[2] = 1 ->
    LET k == x[1] % 4
    IN  IF k = 1 THEN One ELSE IF k = 3 THEN Neg(One) ELSE Zero

\* atan in quarter turns, defined at 0
Atan(r) == CASE r = Zero -> Zero

\* atan2 in quarter turns, defined on the four half axes
Atan2(y, x) ==
  CASE y = Zero /\ x[1] > 0 -> Zero
    [] x = Zero /\ y[1] > 0 -> One
    [] y = Zero /\ x[1] < 0 -> Num(2)
    [] x = Zero /\ y[1] < 0 -> Neg(One)

\* Vector3d and Matrix3d
VAdd(u, v) == <<Add(u[1], v[1]), Add(u[2], v[2]), Add(u[3], v[3])>>

VSub(u, v) == <<Sub(u[1], v[1]), Sub(u[2], v[2]), Sub(u[3], v[3])>>

Dot(r, v) == Add(Add(Mul(r[1], v[1]), Mul(r[2], v[2])), Mul(r[3], v[3]))

MatVec(m, v) == <<Dot(m[1], v), Dot(m[2], v), Dot(m[3], v)>>

ZeroVec == <<Zero, Zero, Zero>>

\* ------------------------------------------------------------ constants
\* a, b and f of the surface EARTH_WGS84 (at the model's scale, see above)
g_EarthWGS84AxisEquatorial == Num(5)

g_EarthWGS84AxisPolar == Num(3)

g_EarthWGS84Flattening == Rat(2, 5)

EARTH_WGS84 == "EARTH_WGS84"

\* a SurfaceType value that is none of the enumerators
UnknownSurface == "UNKNOWN_SURFACE"

SurfaceType == {EARTH_WGS84}

CoordinateType == {"SPHERICAL", "ECEF", "GLOBAL", "LOCAL", "LOCAL2"}

\* a CoordinateType value that is none of the enumerators
InvalidCoordinate == "INVALID"

\* ---------------------------------------------------- PositionTransform
\* case LOCAL of the first switch
PosLocalToECEF(self, _pos) ==
  LET tx == Add(Mul(Neg(_pos[1]), self.cosHea), Mul(_pos[2], self.sinHea))
      ty == Sub(Mul(Neg(_pos[1]), self.sinHea), Mul(_pos[2], self.cosHea))
  IN  VAdd(self.origin, MatVec(self.rotGlobalToECEF, <<tx, ty, _pos[3]>>))

\* case LOCAL2 of the first switch, with LOCAL's signs
PosLocal2ToECEF_AsLocal(self, _pos) ==
  PosLocalToECEF(self, _pos)

\* case LOCAL2 of the first switch
PosLocal2ToECEF(self, _pos) ==
  LET tx == Add(Mul(_pos[1], self.cosHea), Mul(_pos[2], self.sinHea))
      ty == Add(Mul(Neg(_pos[1]), self.sinHea), Mul(_pos[2], self.cosHea))
  IN  VAdd(self.origin, MatVec(self.rotGlobalToECEF, <<tx, ty, _pos[3]>>))

\* case GLOBAL of the first switch
PosGlobalToECEF(self, _pos) ==
  VAdd(self.origin, MatVec(self.rotGlobalToECEF, _pos))

\* the radius of curvature and case SPHERICAL of the first switch
PosSphericalToECEF(self, _pos) ==
  LET cosLat == Cos(_pos[1])
      sinLat == Sin(_pos[1])
      cosLon == Cos(_pos[2])
      sinLon == Sin(_pos[2])
      curvature == Div(self.ellA,
        Sqrt(Sub(One, Mul(Mul(Mul(self.ellE, self.ellE), sinLat), sinLat))))
  IN  << Mul(Mul(Add(_pos[3], curvature), cosLat), cosLon),
         Mul(Mul(Add(_pos[3], curvature), cosLat), sinLon),
         Mul(Add(Mul(Div(Mul(self.ellB, self.ellB), Mul(self.ellA, self.ellA)),
                     curvature), _pos[3]), sinLat) >>

\* case SPHERICAL of the second switch
PosECEFToSpherical(self, tmp) ==
  LET p == Sqrt(Add(Mul(tmp[1], tmp[1]), Mul(tmp[2], tmp[2])))
      theta == Atan(Div(Mul(tmp[3], self.ellA), Mul(p, self.ellB)))
      lat == Atan(Div(
        Add(tmp[3], Mul(Mul(Pow2(self.ellP), self.ellB), Pow3(Sin(theta)))),
        Sub(p, Mul(Mul(Pow2(self.ellE), self.ellA), Pow3(Cos(theta))))))
      lon == Atan2(tmp[2], tmp[1])
      nCurvature == Div(self.ellA,
        Sqrt(Sub(One, Mul(Pow2(self.ellE), Pow2(Sin(lat))))))
  IN  <<lat, lon, Sub(Div(p, Cos(lat)), nCurvature)>>

\* case GLOBAL of the second switch
PosECEFToGlobal(self, tmp) ==
  MatVec(self.rotECEFToGlobal, VSub(tmp, self.origin))

\* cases LOCAL and LOCAL2 of the second switch
PosECEFToLocal(self, tmp) ==
  LET g == MatVec(self.rotECEFToGlobal, VSub(tmp, self.origin))
  IN  << Sub(Mul(g[1], self.cosHea), Mul(g[2], self.sinHea)),
         Add(Mul(g[1], self.sinHea), Mul(g[2], self.cosHea)),
         g[3] >>

\* the default of the second switch hands back the intermediate value
PosUnknownOut_Tmp(_pos, tmp) == tmp

\* the default of the second switch: the value returned
PosUnknownOut(_pos, tmp) == _pos

\* the first switch, on an enumerator of CoordinateType: the ECEF value
PosToECEF(self, _pos, _in) ==
  CASE _in = "LOCAL" -> PosLocalToECEF(self, _pos)
    [] _in = "LOCAL2" -> PosLocal2ToECEF(self, _pos)
    [] _in = "GLOBAL" -> PosGlobalToECEF(self, _pos)
    [] _in = "SPHERICAL" -> PosSphericalToECEF(self, _pos)
    [] _in = "ECEF" -> _pos

\* the second switch, tmp being the ECEF value the first switch left
PosFromECEF(self, _pos, tmp, _out) ==
  IF _out \notin CoordinateType
  THEN [ret |-> PosUnknownOut(_pos, tmp), diag |-> TRUE]
  ELSE [ret |-> CASE _out = "SPHERICAL" -> PosECEFToSpherical(self, tmp)
                  [] _out = "GLOBAL" -> PosECEFToGlobal(self, tmp)
                  [] _out \in {"LOCAL", "LOCAL2"} -> PosECEFToLocal(self, tmp)
                  [] _out = "ECEF" -> tmp,
        diag |-> FALSE]

\* ret: the vector returned; diag: whether a line went to std::cerr
PositionTransform(self, _pos, _in, _out) ==
  IF _in \notin CoordinateType
  THEN [ret |-> _pos, diag |-> TRUE]
  ELSE PosFromECEF(self, _pos, PosToECEF(self, _pos, _in), _out)

\* ---------------------------------------------------- VelocityTransform
\* the sanity check looks at the input frame alone
VelIsSpherical_InOnly(_in, _out) == _in = "SPHERICAL"

\* the sanity check at the head of VelocityTransform
VelIsSpherical(_in, _out) == _in = "SPHERICAL" \/ _out = "SPHERICAL"

\* case LOCAL of the first switch
VelLocalToECEF(self, _vel) ==
  LET tx == Add(Mul(Neg(_vel[1]), self.cosHea), Mul(_vel[2], self.sinHea))
      ty == Sub(Mul(Neg(_vel[1]), self.sinHea), Mul(_vel[2], self.cosHea))
  IN  MatVec(self.rotGlobalToECEF, <<tx, ty, _vel[3]>>)

\* case LOCAL2 of the first switch
VelLocal2ToECEF(self, _vel) ==
  LET tx == Add(Mul(_vel[1], self.cosHea), Mul(_vel[2], self.sinHea))
      ty == Add(Mul(Neg(_vel[1]), self.sinHea), Mul(_vel[2], self.cosHea))
  IN  MatVec(self.rotGlobalToECEF, <<tx, ty, _vel[3]>>)

\* case GLOBAL of the first switch, translated by the origin as a position is
VelGlobalToECEF_WithOrigin(self, _vel) ==
  VAdd(self.origin, MatVec(self.rotGlobalToECEF, _vel))

\* case GLOBAL of the first switch
VelGlobalToECEF(self, _vel) ==
  MatVec(self.rotGlobalToECEF, _vel)

\* case GLOBAL of the second switch
VelECEFToGlobal(self, tmp) ==
  MatVec(self.rotECEFToGlobal, tmp)

\* cases LOCAL and LOCAL2 of the second switch
VelECEFToLocal(self, tmp) ==
  LET g == MatVec(self.rotECEFToGlobal, tmp)
  IN  << Sub(Mul(g[1], self.cosHea), Mul(g[2], self.sinHea)),
         Add(Mul(g[1], self.sinHea), Mul(g[2], self.cosHea)),
         g[3] >>

\* the case labels of the two switches of VelocityTransform
VelocityFrames == {"LOCAL", "LOCAL2", "GLOBAL", "ECEF"}

\* the first switch, on one of its case labels: the ECEF value
VelToECEF(self, _vel, _in) ==
  CASE _in = "LOCAL" -> VelLocalToECEF(self, _vel)
    [] _in = "LOCAL2" -> VelLocal2ToECEF(self, _vel)
    [] _in = "GLOBAL" -> VelGlobalToECEF(self, _vel)
    [] _in = "ECEF" -> _vel

\* the second switch, tmp being the ECEF value the first switch left
VelFromECEF(self, _vel, tmp, _out) ==
  IF _out \notin VelocityFrames
  THEN [ret |-> _vel, diag |-> TRUE]
  ELSE [ret |-> CASE _out = "ECEF" -> tmp
                  [] _out = "GLOBAL" -> VelECEFToGlobal(self, tmp)
                  [] _out \in {"LOCAL", "LOCAL2"} -> VelECEFToLocal(self, tmp),
        diag |-> FALSE]

\* ret: the vector returned; diag: whether a line went to std::cerr
VelocityTransform(self, _vel, _in, _out) ==
  IF VelIsSpherical(_in, _out)
  THEN [ret |-> _vel, diag |-> FALSE]
  ELSE IF _in \notin VelocityFrames
  THEN [ret |-> _vel, diag |-> TRUE]
  ELSE VelFromECEF(self, _vel, VelToECEF(self, _vel, _in), _out)

\* ------------------------------------------------------------ the object
\* Values a double that was never assigned may hold: `new
\* SphericalCoordinatesPrivate` leaves ellA .. ellP indeterminate.
UninitEllipsoid ==
  { [ellA |-> Num(1), ellB |-> Num(1), ellF |-> Zero, ellE |-> Zero, ellP |-> Zero],
    [ellA |-> Num(2), ellB |-> Num(1), ellF |-> Rat(1, 2), ellE |-> Rat(3, 5),
     ellP |-> One] }

ZeroMatrix == <<ZeroVec, ZeroVec, ZeroVec>>

\* The private data as `new` leaves it, garbage being what the five ellipsoid
\* doubles hold.  Angle, Matrix3d and Vector3d construct to zero.  surfaceType,
\* elevationReference, cosHea and sinHea are indeterminate too, and every
\* constructor assigns them before anything reads them.
SphericalCoordinatesPrivate(garbage) ==
  [ surfaceType |-> UnknownSurface,
    latitudeReference |-> Zero,
    longitudeReference |-> Zero,
    elevationReference |-> Zero,
    headingOffset |-> Zero,
    ellA |-> garbage.ellA,
    ellB |-> garbage.ellB,
    ellF |-> garbage.ellF,
    ellE |-> garbage.ellE,
    ellP |-> garbage.ellP,
    rotECEFToGlobal |-> ZeroMatrix,
    rotGlobalToECEF |-> ZeroMatrix,
    origin |-> ZeroVec,
    cosHea |-> Zero,
    sinHea |-> Zero ]

Surface(self) == self.surfaceType

LatitudeReference(self) == self.latitudeReference

LongitudeReference(self) == self.longitudeReference

ElevationReference(self) == self.elevationReference

HeadingOffset(self) == self.headingOffset

\* The switch is on the type just recorded.  Its default case writes a line to
\* std::cerr and assigns nothing more: each parameter keeps the value it had.
SetSurface(self, _type) ==
  LET a == g_EarthWGS84AxisEquatorial
      b == g_EarthWGS84AxisPolar
  IN  [self EXCEPT
        !.surfaceType = _type,
        !.ellA = IF _type = EARTH_WGS84 THEN a ELSE @,
        !.ellB = IF _type = EARTH_WGS84 THEN b ELSE @,
        !.ellF = IF _type = EARTH_WGS84 THEN g_EarthWGS84Flattening ELSE @,
        !.ellE = IF _type = EARTH_WGS84
                 THEN Sqrt(Sub(One, Div(Pow2(b), Pow2(a)))) ELSE @,
        !.ellP = IF _type = EARTH_WGS84
                 THEN Sqrt(Sub(Div(Pow2(a), Pow2(b)), One)) ELSE @]

\* whether SetSurface writes its line to std::cerr
SetSurfaceDiag(_type) == _type # EARTH_WGS84

\* cosHea as UpdateTransformationMatrix caches it
HeadingCos(self) == Cos(Neg(self.headingOffset))

\* the heading cache without the negation
HeadingSin_NotNegated(self) == Sin(self.headingOffset)

\* sinHea as UpdateTransformationMatrix caches it
HeadingSin(self) == Sin(Neg(self.headingOffset))

\* the last statements of UpdateTransformationMatrix: the origin goes from
\* spherical to ECEF, by the matrices and the ellipsoid the object holds by then
UpdateOrigin(self) ==
  [self EXCEPT !.origin = PositionTransform(self, @, "SPHERICAL", "ECEF").ret]

UpdateTransformationMatrix(self) ==
  LET cosLat == Cos(self.latitudeReference)
      sinLat == Sin(self.latitudeReference)
      cosLon == Cos(self.longitudeReference)
      sinLon == Sin(self.longitudeReference)
  IN  UpdateOrigin(
        [self EXCEPT
          !.rotECEFToGlobal =
            << <<Neg(sinLon), cosLon, Zero>>,
               <<Mul(Neg(cosLon), sinLat), Mul(Neg(sinLon), sinLat), cosLat>>,
               <<Mul(cosLon, cosLat), Mul(sinLon, cosLat), sinLat>> >>,
          !.rotGlobalToECEF =
            << <<Neg(sinLon), Mul(Neg(cosLon), sinLat), Mul(cosLon, cosLat)>>,
               <<cosLon, Mul(Neg(sinLon), sinLat), Mul(sinLon, cosLat)>>,
               <<Zero, cosLat, sinLat>> >>,
          !.cosHea = HeadingCos(self),
          !.sinHea = HeadingSin(self),
          !.origin = <<self.latitudeReference, self.longitudeReference,
                       self.elevationReference>>])

SetLatitudeReference(self, _angle) ==
  UpdateTransformationMatrix([self EXCEPT !.latitudeReference = _angle])

SetLongitudeReference(self, _angle) ==
  UpdateTransformationMatrix([self EXCEPT !.longitudeReference = _angle])

SetElevationReference(self, _elevation) ==
  UpdateTransformationMatrix([self EXCEPT !.elevationReference = _elevation])

SetHeadingOffset(self, _angle) ==
  UpdateTransformationMatrix([self EXCEPT !.headingOffset = _angle])

\* SphericalCoordinates()
Construct0(garbage) ==
  SetElevationReference(
    SetSurface(SphericalCoordinatesPrivate(garbage), EARTH_WGS84), Zero)

\* SphericalCoordinates(const SurfaceType)
Construct1(_type, garbage) ==
  SetElevationReference(
    SetSurface(SphericalCoordinatesPrivate(garbage), _type), Zero)

\* SphericalCoordinates(type, latitude, longitude, elevation, heading)
Construct5(_type, _latitude, _longitude, _elevation, _heading, garbage) ==
  UpdateTransformationMatrix(
    [SetSurface(SphericalCoordinatesPrivate(garbage), _type) EXCEPT
      !.latitudeReference = _latitude,
      !.longitudeReference = _longitude,
      !.elevationReference = _elevation,
      !.headingOffset = _heading])

\* operator=
Assign(self, _sc) ==
  LET s1 == SetSurface(self, Surface(_sc))
      s2 == SetLatitudeReference(s1, LatitudeReference(_sc))
      s3 == SetLongitudeReference(s2, LongitudeReference(_sc))
      s4 == SetElevationReference(s3, ElevationReference(_sc))
      s5 == SetHeadingOffset(s4, HeadingOffset(_sc))
  IN  UpdateTransformationMatrix(s5)

\* SphericalCoordinates(const SphericalCoordinates &)
CopyConstruct(_sc, garbage) == Assign(Construct0(garbage), _sc)

\* --------------------------------------------------------------- inputs
Instances == {"a", "b"}

SurfaceArgs == {EARTH_WGS84, UnknownSurface}

Latitudes == {Num(k) : k \in 0..MaxLatQ}

Longitudes == {Num(k) : k \in 0..MaxLonQ}

Headings == {Num(k) : k \in 0..MaxHeadQ}

Elevations == {Num(k) : k \in 0..MaxElev}

Frames == CoordinateType \cup {InvalidCoordinate}

Vectors ==
  { <<Num(t[1]), Num(t[2]), Num(t[3])>> :
      t \in { u \in (0..MaxCoord) \X (0..MaxCoord) \X (0..MaxCoord) :
                u[1] + u[2] + u[3] <= MaxCoord } }

\* The ECEF points whose geodetic coordinates the closed form yields exactly:
\* those on the four equatorial half axes.
SphericalExact(self, tmp) ==
  /\ tmp[3] = Zero
  /\ (tmp[1] = Zero) # (tmp[2] = Zero)
  /\ self.ellB # Zero
  /\ Sub(Sqrt(Add(Mul(tmp[1], tmp[1]), Mul(tmp[2], tmp[2]))),
         Mul(Pow2(self.ellE), self.ellA)) # Zero

\* The calls of PositionTransform whose result is a rational vector.
PosExact(self, _pos, _in, _out) ==
  (_in \in CoordinateType /\ _out = "SPHERICAL")
    => SphericalExact(self, PosToECEF(self, _pos, _in))

\* The objects a constructor yields.
Constructed ==
  { Construct0(g) : g \in UninitEllipsoid }
  \cup { Construct1(t, g) : t \in SurfaceArgs, g \in UninitEllipsoid }
  \cup { Construct5(t, la, lo, el, he, g) :
           t \in SurfaceArgs, la \in Latitudes, lo \in Longitudes,
           el \in Elevations, he \in Headings, g \in UninitEllipsoid }

\* call: the query whose returned value the caller holds, NoCall when none.
NoCall == [op |-> "none", arg |-> ZeroVec, in |-> "none", out |-> "none",
           ret |-> ZeroVec]

\* ------------------------------------------------------------- actions
\* cerr: whether the latest operation wrote a line to std::cerr.
DoSetSurface(i) ==
  /\ call = NoCall
  /\ \E t \in SurfaceArgs :
       /\ sc' = [sc EXCEPT ![i] = SetSurface(@, t)]
       /\ cerr' = SetSurfaceDiag(t)
  /\ UNCHANGED call

DoSetLatitudeReference(i) ==
  /\ call = NoCall
  /\ \E v \in Latitudes : sc' = [sc EXCEPT ![i] = SetLatitudeReference(@, v)]
  /\ cerr' = FALSE
  /\ UNCHANGED call

DoSetLongitudeReference(i) ==
  /\ call = NoCall
  /\ \E v \in Longitudes : sc' = [sc EXCEPT ![i] = SetLongitudeReference(@, v)]
  /\ cerr' = FALSE
  /\ UNCHANGED call

DoSetElevationReference(i) ==
  /\ call = NoCall
  /\ \E v \in Elevations : sc' = [sc EXCEPT ![i] = SetElevationReference(@, v)]
  /\ cerr' = FALSE
  /\ UNCHANGED call

DoSetHeadingOffset(i) ==
  /\ call = NoCall
  /\ \E v \in Headings : sc' = [sc EXCEPT ![i] = SetHeadingOffset(@, v)]
  /\ cerr' = FALSE
  /\ UNCHANGED call

\* sc[i] = sc[j]
DoAssign(i, j) ==
  /\ call = NoCall
  /\ sc' = [sc EXCEPT ![i] = Assign(@, sc[j])]
  /\ cerr' = SetSurfaceDiag(Surface(sc[j]))
  /\ UNCHANGED call

\* sc[i] is destroyed and constructed anew as a copy of sc[j]
DoCopyConstruct(i, j) ==
  /\ call = NoCall
  /\ i # j
  /\ \E g \in UninitEllipsoid : sc' = [sc EXCEPT ![i] = CopyConstruct(sc[j], g)]
  /\ cerr' = SetSurfaceDiag(Surface(sc[j]))
  /\ UNCHANGED call

CallPositionTransform(i) ==
  /\ call = NoCall
  /\ \E v \in Vectors, fin \in Frames, fout \in Frames :
       /\ PosExact(sc[i], v, fin, fout)
       /\ LET r == PositionTransform(sc[i], v, fin, fout)
          IN  /\ call' = [op |-> "PositionTransform", arg |-> v, in |-> fin,
                          out |-> fout, ret |-> r.ret]
              /\ cerr' = r.diag
  /\ UNCHANGED sc

CallVelocityTransform(i) ==
  /\ call = NoCall
  /\ \E v \in Vectors, fin \in Frames, fout \in Frames :
       LET r == VelocityTransform(sc[i], v, fin, fout)
       IN  /\ call' = [op |-> "VelocityTransform", arg |-> v, in |-> fin,
                       out |-> fout, ret |-> r.ret]
           /\ cerr' = r.diag
  /\ UNCHANGED sc

\* the caller is done with the returned value
Observe ==
  /\ call # NoCall
  /\ call' = NoCall
  /\ UNCHANGED <<sc, cerr>>

\* ------------------------------------------ one object, set and queried
\* sc["a"] is the object; sc["b"] is a default-constructed object that stays
\* as it is and is the source of the copy assignment.
Init ==
  /\ \E c \in Constructed, g \in UninitEllipsoid :
       /\ sc = [i \in Instances |-> IF i = "a" THEN c ELSE Construct0(g)]
       /\ cerr = SetSurfaceDiag(Surface(c))
  /\ call = NoCall

Next ==
  \/ DoSetSurface("a")
  \/ DoSetHeadingOffset("a")
  \/ DoSetLatitudeReference("a")
  \/ DoSetLongitudeReference("a")
  \/ DoSetElevationReference("a")
  \/ DoAssign("a", "b")
  \/ CallPositionTransform("a")
  \/ CallVelocityTransform("a")
  \/ Observe

Spec == Init /\ [][Next]_vars

\* ------------------------------------- two objects, set and copied
\* sc["a"] is the object the caller sets; sc["b"] starts default-constructed
\* and is only ever written by a copy of sc["a"] or of itself.
InitCopy ==
  /\ \E ca \in Constructed, g \in UninitEllipsoid :
       /\ sc = [i \in Instances |-> IF i = "a" THEN ca ELSE Construct0(g)]
       /\ cerr \in {SetSurfaceDiag(Surface(ca)), TRUE}
  /\ call = NoCall

NextCopy ==
  \/ DoSetSurface("a")
  \/ DoSetHeadingOffset("a")
  \/ DoSetLatitudeReference("a")
  \/ DoSetLongitudeReference("a")
  \/ DoSetElevationReference("a")
  \/ DoAssign("a", "a")
  \/ DoAssign("a", "b")
  \/ DoAssign("b", "a")
  \/ DoAssign("b", "b")
  \/ DoCopyConstruct("b", "a")

SpecCopy == InitCopy /\ [][NextCopy]_vars

\* ---------------------------------------------------------------- claims
Cartesian == {"LOCAL", "LOCAL2", "GLOBAL", "ECEF"}

\* the five ellipsoid parameters of an object
Ellipsoid(self) ==
  [ellA |-> self.ellA, ellB |-> self.ellB, ellF |-> self.ellF,
   ellE |-> self.ellE, ellP |-> self.ellP]

\* the parameters of EARTH_WGS84: a, b, f, e = sqrt(1 - b^2/a^2),
\* p = sqrt(a^2/b^2 - 1)
WGS84Ellipsoid ==
  [ellA |-> Num(5), ellB |-> Num(3), ellF |-> Rat(2, 5), ellE |-> Rat(4, 5),
   ellP |-> Rat(4, 3)]

\* v turned about the Z axis by k quarter turns, anticlockwise
RotateZ(k, v) ==
  LET c == Cos(Num(k))
      s == Sin(Num(k))
  IN  <<Sub(Mul(c, v[1]), Mul(s, v[2])), Add(Mul(s, v[1]), Mul(c, v[2])), v[3]>>

\* same surface type, reference point and heading
SamePublicState(x, y) ==
  /\ Surface(x) = Surface(y)
  /\ LatitudeReference(x) = LatitudeReference(y)
  /\ LongitudeReference(x) = LongitudeReference(y)
  /\ ElevationReference(x) = ElevationReference(y)
  /\ HeadingOffset(x) = HeadingOffset(y)

\* both transforms answer alike on x and on y
SameAnswers(x, y) ==
  \A v \in Vectors, fin \in Frames, fout \in Frames :
    /\ VelocityTransform(x, v, fin, fout) = VelocityTransform(y, v, fin, fout)
    /\ (PosExact(x, v, fin, fout) /\ PosExact(y, v, fin, fout))
         => PositionTransform(x, v, fin, fout) = PositionTransform(y, v, fin, fout)

\* C1: between public calls the cached rotation matrices, cosHea, sinHea and
\* origin of every object are what UpdateTransformationMatrix computes from
\* its current configuration and ellipsoid parameters.
C1_CacheConsistent ==
  \A i \in Instances : sc[i] = UpdateTransformationMatrix(sc[i])

\* C2: over the frames LOCAL, LOCAL2, GLOBAL and ECEF a position transformed
\* from A to B and back from B to A is the position started from.
C2_RoundTrip ==
  (call.op = "PositionTransform" /\ call.in \in Cartesian /\ call.out \in Cartesian)
    => PositionTransform(sc["a"], call.ret, call.out, call.in).ret = call.arg

\* C3: in every reachable state the surface type of every object is a
\* recognised one and its five ellipsoid parameters are that type's constants.
C3_EllipsoidMatchesSurface ==
  \A i \in Instances :
    Surface(sc[i]) = EARTH_WGS84 /\ Ellipsoid(sc[i]) = WGS84Ellipsoid

\* C4: a VelocityTransform call whose input or output frame is SPHERICAL
\* (the other frame being any value, unrecognised ones included) returns its
\* argument, writes no diagnostic and leaves the object as it was.
C4_VelocitySphericalNoOp ==
  [][ (call'.op = "VelocityTransform"
        /\ (call'.in = "SPHERICAL" \/ call'.out = "SPHERICAL"))
      => (call'.ret = call'.arg /\ ~cerr' /\ sc' = sc) ]_vars

C4_Witness ==
  /\ call.op = "VelocityTransform"
  /\ call.out = "SPHERICAL"
  /\ call.in = "LOCAL"
  /\ call.arg = <<One, Zero, Zero>>
  /\ sc["a"].headingOffset = One
  /\ VelocityTransform(sc["a"], call.arg, "LOCAL", "GLOBAL").ret # call.arg
  /\ call.ret = call.arg
  /\ ~cerr

\* C5 as stated: a PositionTransform or VelocityTransform call with an
\* unrecognised input frame, or with a recognised input frame and an
\* unrecognised output frame, writes a diagnostic, returns its argument and
\* leaves the object as it was.
C5_UnknownFrameDiagnostic ==
  [][ (call'.op \in {"PositionTransform", "VelocityTransform"}
        /\ (call'.in \notin CoordinateType \/ call'.out \notin CoordinateType))
      => (call'.ret = call'.arg /\ cerr' /\ sc' = sc) ]_vars

\* C5 amended: such a call returns its argument and leaves the object as it
\* was; it writes a diagnostic, except that VelocityTransform writes none
\* when the other frame is SPHERICAL.
C5_UnknownFrameAmended ==
  [][ (call'.op \in {"PositionTransform", "VelocityTransform"}
        /\ (call'.in \notin CoordinateType \/ call'.out \notin CoordinateType))
      => /\ call'.ret = call'.arg
         /\ sc' = sc
         /\ cerr' = ~(call'.op = "VelocityTransform"
                        /\ (call'.in = "SPHERICAL" \/ call'.out = "SPHERICAL")) ]_vars

C5_Witness ==
  /\ call.op = "PositionTransform"
  /\ call.in = "GLOBAL"
  /\ call.out = InvalidCoordinate
  /\ PosToECEF(sc["a"], call.arg, "GLOBAL") # call.arg
  /\ call.ret = call.arg
  /\ cerr

\* C6: a step that copy-assigns sc[j] to sc[i], or constructs sc[i] as a copy
\* of sc[j], leaves sc[j] as it was and sc[i] with the surface type, reference
\* point and heading of sc[j] and with the same answer as sc[j] to every
\* PositionTransform and VelocityTransform call.
C6_CopyReproducesSource ==
  [][ \A i \in Instances, j \in Instances :
        ( /\ i # j
          /\ \/ sc' = [sc EXCEPT ![i] = Assign(sc[i], sc[j])]
             \/ \E g \in UninitEllipsoid :
                  sc' = [sc EXCEPT ![i] = CopyConstruct(sc[j], g)] )
        => ( /\ sc'[j] = sc[j]
             /\ SamePublicState(sc'[i], sc'[j])
             /\ SameAnswers(sc'[i], sc'[j]) ) ]_vars

\* C7: a position or a velocity transformed from LOCAL2 to GLOBAL or ECEF
\* and back to LOCAL2 is the vector started from.
C7_Local2RoundTrip ==
  /\ (call.op = "PositionTransform" /\ call.in = "LOCAL2"
        /\ call.out \in {"GLOBAL", "ECEF"})
       => PositionTransform(sc["a"], call.ret, call.out, "LOCAL2").ret = call.arg
  /\ (call.op = "VelocityTransform" /\ call.in = "LOCAL2"
        /\ call.out \in {"GLOBAL", "ECEF"})
       => VelocityTransform(sc["a"], call.ret, call.out, "LOCAL2").ret = call.arg

C7_Witness ==
  /\ call.op = "PositionTransform"
  /\ call.in = "LOCAL2"
  /\ call.out = "GLOBAL"
  /\ sc["a"].headingOffset = One
  /\ call.arg = <<One, Zero, Zero>>
  /\ call.ret # call.arg
  /\ PositionTransform(sc["a"], call.ret, "GLOBAL", "LOCAL2").ret = call.arg

\* C8: over the frames LOCAL, LOCAL2, GLOBAL and ECEF the velocity transform
\* of v is the position transform of v less the position transform of the
\* zero vector, and it is the same whatever the elevation reference is set to.
C8_VelocityIsPositionLessOffset ==
  (call.op = "VelocityTransform" /\ call.in \in Cartesian /\ call.out \in Cartesian)
    => /\ call.ret =
            VSub(PositionTransform(sc["a"], call.arg, call.in, call.out).ret,
                 PositionTransform(sc["a"], ZeroVec, call.in, call.out).ret)
       /\ \A e \in Elevations :
            VelocityTransform(SetElevationReference(sc["a"], e),
                              call.arg, call.in, call.out).ret = call.ret

C8_Witness ==
  /\ call.op = "VelocityTransform"
  /\ call.in = "LOCAL"
  /\ call.out = "ECEF"
  /\ call.arg # ZeroVec
  /\ sc["a"].elevationReference = One
  /\ PositionTransform(sc["a"], ZeroVec, "LOCAL", "ECEF").ret # ZeroVec
  /\ PositionTransform(sc["a"], call.arg, "LOCAL", "ECEF").ret # call.ret

\* C9: the GLOBAL value of a LOCAL position under heading offset h is its
\* GLOBAL value under heading offset 0 turned about the Z axis by -h.
C9_HeadingSign ==
  (call.op = "PositionTransform" /\ call.in = "LOCAL" /\ call.out = "GLOBAL")
    => call.ret =
         RotateZ(-sc["a"].headingOffset[1],
                 PositionTransform(SetHeadingOffset(sc["a"], Zero),
                                   call.arg, "LOCAL", "GLOBAL").ret)

C9_Witness ==
  /\ call.op = "PositionTransform"
  /\ call.in = "LOCAL"
  /\ call.out = "GLOBAL"
  /\ sc["a"].headingOffset = One
  /\ call.arg = <<One, Zero, Zero>>
  /\ call.ret = <<Zero, One, Zero>>
  /\ PositionTransform(SetHeadingOffset(sc["a"], Zero),
                       call.arg, "LOCAL", "GLOBAL").ret = <<Neg(One), Zero, Zero>>

\* C10: a step that calls one of the four reference setters on sc[i] sets the
\* field of that setter and leaves the surface type, the ellipsoid parameters
\* and the other three reference fields; SetElevationReference and
\* SetHeadingOffset leave both rotation matrices; the three setters other
\* than SetHeadingOffset leave cosHea and sinHea; SetHeadingOffset leaves
\* origin.
C10_SetterFrame ==
  [][ \A i \in Instances :
        LET old == sc[i]
            new == sc'[i]
            SameEllipsoid == Surface(new) = Surface(old)
                             /\ Ellipsoid(new) = Ellipsoid(old)
            SameRot == new.rotECEFToGlobal = old.rotECEFToGlobal
                       /\ new.rotGlobalToECEF = old.rotGlobalToECEF
            SameHea == new.cosHea = old.cosHea /\ new.sinHea = old.sinHea
        IN  /\ \A v \in Latitudes :
                 sc' = [sc EXCEPT ![i] = SetLatitudeReference(old, v)]
                 => /\ LatitudeReference(new) = v
                    /\ LongitudeReference(new) = LongitudeReference(old)
                    /\ ElevationReference(new) = ElevationReference(old)
                    /\ HeadingOffset(new) = HeadingOffset(old)
                    /\ SameEllipsoid /\ SameHea
            /\ \A v \in Longitudes :
                 sc' = [sc EXCEPT ![i] = SetLongitudeReference(old, v)]
                 => /\ LongitudeReference(new) = v
                    /\ LatitudeReference(new) = LatitudeReference(old)
                    /\ ElevationReference(new) = ElevationReference(old)
                    /\ HeadingOffset(new) = HeadingOffset(old)
                    /\ SameEllipsoid /\ SameHea
            /\ \A v \in Elevations :
                 sc' = [sc EXCEPT ![i] = SetElevationReference(old, v)]
                 => /\ ElevationReference(new) = v
                    /\ LatitudeReference(new) = LatitudeReference(old)
                    /\ LongitudeReference(new) = LongitudeReference(old)
                    /\ HeadingOffset(new) = HeadingOffset(old)
                    /\ SameEllipsoid /\ SameHea /\ SameRot
            /\ \A v \in Headings :
                 sc' = [sc EXCEPT ![i] = SetHeadingOffset(old, v)]
                 => /\ HeadingOffset(new) = v
                    /\ LatitudeReference(new) = LatitudeReference(old)
                    /\ LongitudeReference(new) = LongitudeReference(old)
                    /\ ElevationReference(new) = ElevationReference(old)
                    /\ SameEllipsoid /\ SameRot
                    /\ new.origin = old.origin ]_vars

====
